---- MODULE Spec2Model ----
(***************************************************************************)
(* The request pipeline of the media API: Boundary (handlers) ->           *)
(* Orchestration (use cases) -> Access (stores), with the domain and wire  *)
(* error taxonomy and the job status rule of JobsStore.getJobResult.       *)
(*                                                                         *)
(* An Effect is modelled by its Exit: a success value, a failure (a typed  *)
(* error in the error channel) or a defect (die).  Every request runs      *)
(* under a layer: the JobsStore and MediaStore services its context        *)
(* provides (the default services, or test doubles made by                 *)
(* makeTestService).                                                       *)
(***************************************************************************)
EXTENDS Integers, Sequences, FiniteSets, TLC

\* Number of pipelines (fibers) the model holds.
NumRequests == 2

Requests == 1..NumRequests

\* The id the mock JobsStore.getJobById treats as missing.
MissingId == 999

\* Values of the {id} path parameter (positive integers).
Ids == {1, 2, MissingId}

Statuses == {"pending", "in-progress", "completed"}

(***************************************************************************)
(* Error taxonomy                                                          *)
(***************************************************************************)

\* Wire errors: Schema.TaggedError classes with no fields beyond the tag.
JobResultNotFound == [tag |-> "JobResultNotFound"]
JobNotFound == [tag |-> "JobNotFound"]
MediaEmpty == [tag |-> "MediaEmpty"]
MediaNotFound == [tag |-> "MediaNotFound"]

WireErrors == {JobResultNotFound, JobNotFound, MediaEmpty, MediaNotFound}

WireErrorTags == {e.tag : e \in WireErrors}

\* Domain errors: Data.TaggedError classes with a diagnostic payload.
JobProcessingError(jobId, reason) ==
    [tag |-> "JobProcessingError", jobId |-> jobId, reason |-> reason]

JobNotFoundError(id) == [tag |-> "JobNotFoundError", id |-> id]

JobResultNotFoundError(jobId) == [tag |-> "JobResultNotFoundError", jobId |-> jobId]

MediaEmptyError(reason) == [tag |-> "MediaEmptyError", reason |-> reason]

MediaNotFoundError(id) == [tag |-> "MediaNotFoundError", id |-> id]

MediaParsingError(source, error) ==
    [tag |-> "MediaParsingError", source |-> source, error |-> error]

DomainErrorTags ==
    {"JobProcessingError", "JobNotFoundError", "JobResultNotFoundError",
     "MediaEmptyError", "MediaNotFoundError", "MediaParsingError"}

(***************************************************************************)
(* Exits of an Effect                                                      *)
(***************************************************************************)

Succeed(value) == [kind |-> "Success", value |-> value]

Fail(error) == [kind |-> "Failure", error |-> error]

Die(defect) == [kind |-> "Die", defect |-> defect]

\* No exit yet: the effect has not completed.
Pending == [kind |-> "Pending"]

IsSuccess(exit) == exit.kind = "Success"

IsFailure(exit) == exit.kind = "Failure"

IsDie(exit) == exit.kind = "Die"

FailsWith(exit, tag) == IsFailure(exit) /\ exit.error.tag = tag

\* E.orDie: a failure becomes a defect carrying the error; success and
\* defects pass through.
OrDie(exit) == IF IsFailure(exit) THEN Die(exit.error) ELSE exit

\* Faulty variant: the wire error built from the domain error, payload
\* included.
CatchTags_KeepingPayload(cases, exit) ==
    IF IsFailure(exit) /\ exit.error.tag \in DOMAIN cases
    THEN Fail(cases[exit.error.tag] @@ exit.error)
    ELSE exit

\* E.catchTags(cases): a failure whose tag has a case is replaced by the
\* case's result (here a yieldable wire error, so a failure with it); any
\* other failure, a success and a defect pass through.
CatchTags(cases, exit) ==
    IF IsFailure(exit) /\ exit.error.tag \in DOMAIN cases
    THEN Fail(cases[exit.error.tag])
    ELSE exit

\* Faulty variant: a catch that also replaces defects (as E.catchAllCause
\* would).
CatchAll_WithDefects(wire, exit) == IF IsSuccess(exit) THEN exit ELSE Fail(wire)

\* E.catchAll(() => wire): every failure is replaced; defects pass through.
CatchAll(wire, exit) == IF IsFailure(exit) THEN Fail(wire) ELSE exit

\* E.tapError(E.logError): the events it appends to the log, one when the
\* effect fails with a typed error, none on success or defect.
TapErrorLog(who, exit) ==
    IF IsFailure(exit) THEN <<[by |-> who, error |-> exit.error]>> ELSE <<>>

(***************************************************************************)
(* Access Layer: JobsStore                                                 *)
(***************************************************************************)

JobResponse(id, name, status) == [id |-> id, name |-> name, status |-> status]

JobResultResponse(id, result) == [id |-> id, result |-> result]

JobsResponse(jobs) == [jobs |-> jobs]

\* The service built by the class's effect (JobsStore.Default).
JobsStore_getAllJobs ==
    Succeed(JobsResponse(<<JobResponse(1, "Parse Video 1", "completed"),
                           JobResponse(2, "Parse Audio 2", "in-progress"),
                           JobResponse(3, "Parse Document 3", "pending")>>))

\* Faulty variant: a lookup that holds job 1 only.
JobsStore_getJobById_OnlyFirst(id) ==
    IF id # 1
    THEN Fail(JobNotFoundError(id))
    ELSE Succeed(JobResponse(id, "Job " \o ToString(id), "in-progress"))

\* Faulty variant: a lookup answering every id with the record of job 1.
JobsStore_getJobById_FirstJob(id) ==
    IF id = MissingId
    THEN Fail(JobNotFoundError(id))
    ELSE Succeed(JobResponse(1, "Job 1", "in-progress"))

JobsStore_getJobById(id) ==
    IF id = MissingId
    THEN Fail(JobNotFoundError(id))
    ELSE Succeed(JobResponse(id, "Job " \o ToString(id), "in-progress"))

\* Faulty variants of getJobResult's second part: no status check; a failed
\* lookup reported as a missing result; an incomplete job reported as a
\* missing job.
JobsStore_getJobResult_NoStatusCheck(job, jobId) ==
    IF ~IsSuccess(job)
    THEN job
    ELSE Succeed(JobResultResponse(jobId, "Result for job " \o ToString(jobId)))

JobsStore_getJobResult_LookupConflated(job, jobId) ==
    IF ~IsSuccess(job)
    THEN Fail(JobResultNotFoundError(jobId))
    ELSE IF job.value.status # "completed"
         THEN Fail(JobResultNotFoundError(jobId))
         ELSE Succeed(JobResultResponse(jobId, "Result for job " \o ToString(jobId)))

JobsStore_getJobResult_StatusConflated(job, jobId) ==
    IF ~IsSuccess(job)
    THEN job
    ELSE IF job.value.status # "completed"
         THEN Fail(JobNotFoundError(jobId))
         ELSE Succeed(JobResultResponse(jobId, "Result for job " \o ToString(jobId)))

\* getJobResult after `const job = yield* jobsStore.getJobById(jobId)`:
\* `job` is the exit of that lookup.  A lookup that did not succeed ends
\* getJobResult with the same exit; otherwise the status decides.
JobsStore_getJobResult(job, jobId) ==
    IF ~IsSuccess(job)
    THEN job
    ELSE IF job.value.status # "completed"
         THEN Fail(JobResultNotFoundError(jobId))
         ELSE Succeed(JobResultResponse(jobId, "Result for job " \o ToString(jobId)))

\* How a method of a provided service is implemented.
DefaultImpl == [impl |-> "Default"]

NotImplemented == [impl |-> "NotImplemented"]

\* Overrides handed to makeTestService (the test suites' stand-ins).
GetAllJobsMocks ==
    {[impl |-> "Succeed",
      jobs |-> <<JobResponse(1, "Test Job 1", "in-progress"),
                 JobResponse(2, "Test Job 2", "completed")>>],
     [impl |-> "Succeed",
      jobs |-> <<JobResponse(99, "Handler Test Job", "pending")>>],
     [impl |-> "Fail", error |-> JobProcessingError(1, "table unavailable")],
     [impl |-> "Fail", error |-> JobNotFoundError(1)]}

GetJobByIdMocks == {[impl |-> "Succeed", status |-> s] : s \in Statuses}

GetJobResultMocks == {[impl |-> "Succeed"], [impl |-> "Fail"]}

JobsStoreDefault ==
    [getAllJobs |-> DefaultImpl, getJobById |-> DefaultImpl, getJobResult |-> DefaultImpl]

\* JobsStore.makeTestService: every method dies with 'Not implemented'
\* unless the mock implementation overrides it.
makeTestService(mockImplementation) ==
    mockImplementation @@
    [getAllJobs |-> NotImplemented, getJobById |-> NotImplemented,
     getJobResult |-> NotImplemented]

\* test-utils makeUnimplemented: the effect an unimplemented method of a
\* makeTestLayer double returns.
makeUnimplemented(id, prop) ==
    Die(id \o ": Unimplemented method \"" \o prop \o "\"")

\* test-utils makeTestLayer(tag)(service): a proxy over the supplied
\* methods that answers every other method with makeUnimplemented.
makeTestLayer(key, service) ==
    service @@
    [method \in {"getAllJobs", "getJobById", "getJobResult"} |->
        [impl |-> "Unimplemented", id |-> key, prop |-> method]]

\* Faulty variant: a double whose unimplemented listing answers an empty
\* list instead of dying.
CallGetAllJobs_Lenient(store) ==
    LET m == store.getAllJobs IN
    CASE m.impl = "Default" -> JobsStore_getAllJobs
      [] m.impl \in {"NotImplemented", "Unimplemented"} -> Succeed(JobsResponse(<<>>))
      [] m.impl = "Succeed" -> Succeed(JobsResponse(m.jobs))
      [] m.impl = "Fail" -> Fail(m.error)

\* store.getAllJobs() on the provided service.
CallGetAllJobs(store) ==
    LET m == store.getAllJobs IN
    CASE m.impl = "Default" -> JobsStore_getAllJobs
      [] m.impl = "NotImplemented" -> Die("Not implemented")
      [] m.impl = "Unimplemented" -> makeUnimplemented(m.id, m.prop)
      [] m.impl = "Succeed" -> Succeed(JobsResponse(m.jobs))
      [] m.impl = "Fail" -> Fail(m.error)

\* store.getJobById(id) on the provided service.
CallGetJobById(store, id) ==
    LET m == store.getJobById IN
    CASE m.impl = "Default" -> JobsStore_getJobById(id)
      [] m.impl = "NotImplemented" -> Die("Not implemented")
      [] m.impl = "Unimplemented" -> makeUnimplemented(m.id, m.prop)
      [] m.impl = "Succeed" ->
           Succeed(JobResponse(id, "Job " \o ToString(id), m.status))

\* store.getJobResult(jobId) of a test double (the default implementation
\* runs in two steps, see StoreGetJobResultLookup / StoreGetJobResultCheck).
CallGetJobResultDouble(store, jobId) ==
    LET m == store.getJobResult IN
    CASE m.impl = "NotImplemented" -> Die("Not implemented")
      [] m.impl = "Unimplemented" -> makeUnimplemented(m.id, m.prop)
      [] m.impl = "Succeed" ->
           Succeed(JobResultResponse(jobId, "Result for job " \o ToString(jobId)))
      [] m.impl = "Fail" -> Fail(JobResultNotFoundError(jobId))

(***************************************************************************)
(* Access Layer: MediaStore                                                *)
(***************************************************************************)

MediaResponse(json) == [json |-> json]

Segment(start, end, text) == [start |-> start, end |-> end, text |-> text]

\* 'url' in request ? request.url : 'file'
SourceOf(request) == IF "url" \in DOMAIN request THEN request.url ELSE "file"

\* MediaStore (E.Service) parseMedia, after its simulated processing delay.
MediaStore_parseMedia(request) ==
    Succeed(MediaResponse(<<Segment(0, 5000, "Hello world"),
                            Segment(5000, 10000, "This is a test"),
                            Segment(10000, 15000, "Subtitle parsing complete")>>))

\* MediaStore.Deepgram parseMedia (the Context.Tag variant of the store).
Deepgram_parseMedia(request) == Succeed(MediaResponse(<<>>))

\* The MediaStore implementations a run can be provided with: the two
\* stores above, makeTestService({}), makeTestLayer(MediaStore)({}) and
\* stand-ins that succeed or fail with the error the interface declares.
MediaStores ==
    {"Default", "Deepgram", "NotImplemented", "Unimplemented", "Succeed", "Fail"}

\* The MediaStore implementations the server is wired with:
\* MediaStore.Default, or Layer.succeed(MediaStore, MediaStore.Deepgram).
ServerMediaStores == {"Default", "Deepgram"}

CallParseMedia(store, request) ==
    CASE store = "Default" -> MediaStore_parseMedia(request)
      [] store = "Deepgram" -> Deepgram_parseMedia(request)
      [] store = "NotImplemented" -> Die("Not implemented")
      [] store = "Unimplemented" -> makeUnimplemented("MediaStore", "parseMedia")
      [] store = "Succeed" ->
           Succeed(MediaResponse(<<Segment(0, 3000, "Hola mundo")>>))
      [] store = "Fail" ->
           Fail(MediaParsingError(SourceOf(request), "engine failure"))

\* The two shapes of UnifiedMediaRequest.
MediaRequests ==
    {[url |-> "https://x/video.mp4", language |-> "en"],
     [file |-> "video.mp4", language |-> "en"]}

(***************************************************************************)
(* Orchestration Layer: what each use case's pipe does to the store's exit *)
(* (tapError logs and leaves the exit as it is; see UsecaseTapError)       *)
(***************************************************************************)

\* Faulty variants: listing without E.orDie; result lookup with E.orDie.
getJobsUsecase_Propagating(exit) == exit

getJobResultUsecase_Fatal(exit) == OrDie(exit)

getJobsUsecase(exit) == OrDie(exit)

getJobByIdUsecase(exit) == exit

getJobResultUsecase(exit) == exit

parseMediaUsecase(exit) == OrDie(exit)

Usecase(endpoint, exit) ==
    CASE endpoint = "getJobs" -> getJobsUsecase(exit)
      [] endpoint = "getJob" -> getJobByIdUsecase(exit)
      [] endpoint = "getJobResult" -> getJobResultUsecase(exit)
      [] endpoint = "parseMedia" -> parseMediaUsecase(exit)

UsecaseName(endpoint) ==
    CASE endpoint = "getJobs" -> "getJobsUsecase"
      [] endpoint = "getJob" -> "getJobByIdUsecase"
      [] endpoint = "getJobResult" -> "getJobResultUsecase"
      [] endpoint = "parseMedia" -> "parseMediaUsecase"

StoreOperation(endpoint) ==
    CASE endpoint = "getJobs" -> "JobsStore.getAllJobs"
      [] endpoint = "getJob" -> "JobsStore.getJobById"
      [] endpoint = "getJobResult" -> "JobsStore.getJobResult"
      [] endpoint = "parseMedia" -> "MediaStore.parseMedia"

(***************************************************************************)
(* Boundary Layer: the translation each handler applies to the use case's  *)
(* exit                                                                    *)
(***************************************************************************)

\* Faulty variants: a handler with no case for JobNotFoundError; a handler
\* answering a missing result as a missing job.
getJobByIdHandlerCases_Empty == <<>>

getJobResultHandlerCases_Conflated ==
    [JobNotFoundError |-> JobNotFound, JobResultNotFoundError |-> JobNotFound]

\* Faulty variant: a missing job of getJobResult translated to the media
\* error the endpoint does not declare.
getJobResultHandlerCases_Undeclared ==
    [JobNotFoundError |-> MediaNotFound, JobResultNotFoundError |-> JobResultNotFound]

\* The cases of each handler's E.catchTags: domain error tag -> wire error.
getJobsHandlerCases == <<>>

getJobByIdHandlerCases == [JobNotFoundError |-> JobNotFound]

getJobResultHandlerCases ==
    [JobNotFoundError |-> JobNotFound, JobResultNotFoundError |-> JobResultNotFound]

parseMediaHandlerCases == [MediaParsingError |-> MediaEmpty]

\* Faulty variant: a listing handler that returns the jobs in reverse
\* order.
getJobsHandler_Reversing(exit) ==
    IF IsSuccess(exit)
    THEN LET jobs == exit.value.jobs
         IN Succeed(JobsResponse([k \in 1..Len(jobs) |-> jobs[Len(jobs) + 1 - k]]))
    ELSE exit

getJobsHandler(exit) == exit

getJobByIdHandler(exit) == CatchTags(getJobByIdHandlerCases, exit)

getJobResultHandler(exit) == CatchTags(getJobResultHandlerCases, exit)

\* parseMediaHandler exists in two versions: one translates with
\* E.catchTags, the other with E.catchAll.
ParseMediaHandlerVersions == {"catchTags", "catchAll"}

parseMediaHandler(version, exit) ==
    IF version = "catchTags"
    THEN CatchTags(parseMediaHandlerCases, exit)
    ELSE CatchAll(MediaEmpty, exit)

Handler(req, exit) ==
    CASE req.endpoint = "getJobs" -> getJobsHandler(exit)
      [] req.endpoint = "getJob" -> getJobByIdHandler(exit)
      [] req.endpoint = "getJobResult" -> getJobResultHandler(exit)
      [] req.endpoint = "parseMedia" -> parseMediaHandler(req.handler, exit)

(***************************************************************************)
(* The HTTP API: the errors each endpoint declares, with their status      *)
(***************************************************************************)

Endpoints == {"parseMedia", "getJobs", "getJob", "getJobResult"}

\* Faulty variant: declarations that leave JobNotFound out.
ApiErrors_WithoutJobNotFound(endpoint) ==
    CASE endpoint = "parseMedia" -> {}
      [] endpoint = "getJobs" -> {}
      [] endpoint = "getJob" -> {[error |-> "MediaNotFound", status |-> 404]}
      [] endpoint = "getJobResult" ->
           {[error |-> "JobResultNotFound", status |-> 404],
            [error |-> "MediaEmpty", status |-> 422]}

ApiErrors(endpoint) ==
    CASE endpoint = "parseMedia" -> {[error |-> "MediaEmpty", status |-> 422]}
      [] endpoint = "getJobs" -> {}
      [] endpoint = "getJob" -> {[error |-> "JobNotFound", status |-> 404]}
      [] endpoint = "getJobResult" ->
           {[error |-> "JobResultNotFound", status |-> 404],
            [error |-> "JobNotFound", status |-> 404]}

\* The response the transport renders for a handler's exit: 200 with the
\* value, the declared status with the wire error, or an unclassified
\* failure (500) for anything else.
HttpResponse(endpoint, exit) ==
    IF IsSuccess(exit)
    THEN [status |-> 200, kind |-> "Success", body |-> exit.value]
    ELSE IF IsFailure(exit) /\ \E d \in ApiErrors(endpoint) : d.error = exit.error.tag
         THEN [status |-> (CHOOSE d \in ApiErrors(endpoint) :
                              d.error = exit.error.tag).status,
               kind |-> "Error", body |-> exit.error]
         ELSE [status |-> 500, kind |-> "Unexpected", body |-> <<>>]

(***************************************************************************)
(* The pipeline as a state machine                                         *)
(***************************************************************************)

VARIABLES
    pc,           \* pc[r]: where request r's pipeline stands
    request,      \* request[r]: endpoint, argument and provided services
    job,          \* job[r]: exit of the getJobById lookup inside getJobResult
    storeExit,    \* storeExit[r]: exit of the store operation
    usecaseExit,  \* usecaseExit[r]: exit of the use case
    handlerExit,  \* handlerExit[r]: exit of the handler
    response,     \* response[r]: what the transport answers
    log,          \* log[r]: the error-log events of the request, in order
    calls         \* calls[r]: the use case and store operations invoked, in order

vars == <<pc, request, job, storeExit, usecaseExit, handlerExit, response, log, calls>>

NoRequest == [endpoint |-> "none"]

NoResponse == [status |-> 0, kind |-> "None", body |-> <<>>]

\* The JobsStore services a run of an endpoint can be provided with: the
\* default service, or a test double overriding the methods the endpoint
\* reaches (a method it never calls cannot affect the run).
JobsStoresFor(endpoint) ==
    {JobsStoreDefault, makeTestService(<<>>), makeTestLayer("JobsStore", <<>>)} \cup
    CASE endpoint = "getJobs" ->
           {makeTestService([getAllJobs |-> m]) : m \in GetAllJobsMocks}
      [] endpoint = "getJob" ->
           {makeTestService([getJobById |-> m]) : m \in GetJobByIdMocks}
      [] endpoint = "getJobResult" ->
           {makeTestService([getJobById |-> m, getJobResult |-> n]) :
              m \in GetJobByIdMocks \cup {NotImplemented},
              n \in GetJobResultMocks \cup {DefaultImpl}}
      [] endpoint = "parseMedia" -> {}

ArgumentsFor(endpoint) ==
    CASE endpoint = "getJobs" -> {<<>>}
      [] endpoint \in {"getJob", "getJobResult"} -> Ids
      [] endpoint = "parseMedia" -> MediaRequests

\* Every request the model serves.
RequestInputs ==
    UNION {
      {[endpoint |-> e, arg |-> a, jobsStore |-> js, mediaStore |-> ms, handler |-> h] :
         a \in ArgumentsFor(e),
         js \in JobsStoresFor(e),
         ms \in IF e = "parseMedia" THEN MediaStores ELSE {"Default"},
         h \in IF e = "parseMedia" THEN ParseMediaHandlerVersions ELSE {"catchTags"}}
      : e \in Endpoints}

Init ==
    /\ pc = [r \in Requests |-> "idle"]
    /\ request = [r \in Requests |-> NoRequest]
    /\ job = [r \in Requests |-> Pending]
    /\ storeExit = [r \in Requests |-> Pending]
    /\ usecaseExit = [r \in Requests |-> Pending]
    /\ handlerExit = [r \in Requests |-> Pending]
    /\ response = [r \in Requests |-> NoResponse]
    /\ log = [r \in Requests |-> <<>>]
    /\ calls = [r \in Requests |-> <<>>]

\* A request arrives and its handler is invoked.  Runs are taken one at a
\* time: a new one starts when no other is in flight.
Start(r) ==
    /\ \A q \in Requests : pc[q] = "idle"
    /\ \E req \in RequestInputs : request' = [request EXCEPT ![r] = req]
    /\ pc' = [pc EXCEPT ![r] = "handler"]
    /\ UNCHANGED <<job, storeExit, usecaseExit, handlerExit, response, log, calls>>

\* Faulty variant: a handler that, besides invoking its use case, calls
\* the store operation itself.
HandlerCallsUsecase_AndStore(r) ==
    /\ pc[r] = "handler"
    /\ calls' = [calls EXCEPT ![r] =
                    <<StoreOperation(request[r].endpoint),
                      UsecaseName(request[r].endpoint)>>]
    /\ pc' = [pc EXCEPT ![r] = "usecase"]
    /\ UNCHANGED <<request, job, storeExit, usecaseExit, handlerExit, response, log>>

\* `yield* <usecase>(...)` in the handler.
HandlerCallsUsecase(r) ==
    /\ pc[r] = "handler"
    /\ calls' = [calls EXCEPT ![r] = Append(@, UsecaseName(request[r].endpoint))]
    /\ pc' = [pc EXCEPT ![r] = "usecase"]
    /\ UNCHANGED <<request, job, storeExit, usecaseExit, handlerExit, response, log>>

\* `yield* <Store>` and the call of its operation in the use case.
UsecaseCallsStore(r) ==
    /\ pc[r] = "usecase"
    /\ calls' = [calls EXCEPT ![r] = Append(@, StoreOperation(request[r].endpoint))]
    /\ pc' = [pc EXCEPT ![r] = "store"]
    /\ UNCHANGED <<request, job, storeExit, usecaseExit, handlerExit, response, log>>

StoreGetAllJobs(r) ==
    /\ pc[r] = "store"
    /\ request[r].endpoint = "getJobs"
    /\ storeExit' = [storeExit EXCEPT ![r] = CallGetAllJobs(request[r].jobsStore)]
    /\ pc' = [pc EXCEPT ![r] = "usecase_tap"]
    /\ UNCHANGED <<request, job, usecaseExit, handlerExit, response, log, calls>>

\* Faulty variant: a store in which looking a job up for its result marks
\* the job completed, so a later getJobById reads another status.
StoreGetJobById_Advancing(r) ==
    /\ pc[r] = "store"
    /\ request[r].endpoint = "getJob"
    /\ storeExit' = [storeExit EXCEPT ![r] =
          IF \E q \in Requests \ {r} :
                IsSuccess(job[q]) /\ job[q].value.id = request[r].arg
          THEN Succeed(JobResponse(request[r].arg,
                                   "Job " \o ToString(request[r].arg), "completed"))
          ELSE CallGetJobById(request[r].jobsStore, request[r].arg)]
    /\ pc' = [pc EXCEPT ![r] = "usecase_tap"]
    /\ UNCHANGED <<request, job, usecaseExit, handlerExit, response, log, calls>>

\* Faulty variant: a store keeping the requested id in a field shared by
\* all callers, so a lookup may run with the id of another request.
StoreGetJobById_SharedId(r) ==
    /\ pc[r] = "store"
    /\ request[r].endpoint = "getJob"
    /\ \E q \in Requests :
          /\ request[q].endpoint = "getJob"
          /\ storeExit' = [storeExit EXCEPT ![r] =
                              CallGetJobById(request[r].jobsStore, request[q].arg)]
    /\ pc' = [pc EXCEPT ![r] = "usecase_tap"]
    /\ UNCHANGED <<request, job, usecaseExit, handlerExit, response, log, calls>>

StoreGetJobById(r) ==
    /\ pc[r] = "store"
    /\ request[r].endpoint = "getJob"
    /\ storeExit' = [storeExit EXCEPT ![r] =
                        CallGetJobById(request[r].jobsStore, request[r].arg)]
    /\ pc' = [pc EXCEPT ![r] = "usecase_tap"]
    /\ UNCHANGED <<request, job, usecaseExit, handlerExit, response, log, calls>>

\* Faulty variant: getJobResult going to its status check without having
\* looked the job up.
StoreGetJobResultLookup_Unresolved(r) ==
    /\ pc[r] = "store"
    /\ request[r].endpoint = "getJobResult"
    /\ request[r].jobsStore.getJobResult = DefaultImpl
    /\ pc' = [pc EXCEPT ![r] = "store_check"]
    /\ UNCHANGED <<request, job, storeExit, usecaseExit, handlerExit, response, log, calls>>

\* JobsStore.getJobResult, first part: resolve JobsStore from the context
\* and look the job up through its getJobById.
StoreGetJobResultLookup(r) ==
    /\ pc[r] = "store"
    /\ request[r].endpoint = "getJobResult"
    /\ request[r].jobsStore.getJobResult = DefaultImpl
    /\ job' = [job EXCEPT ![r] = CallGetJobById(request[r].jobsStore, request[r].arg)]
    /\ calls' = [calls EXCEPT ![r] = Append(@, "JobsStore.getJobById")]
    /\ pc' = [pc EXCEPT ![r] = "store_check"]
    /\ UNCHANGED <<request, storeExit, usecaseExit, handlerExit, response, log>>

\* JobsStore.getJobResult, second part: the status check and the result.
StoreGetJobResultCheck(r) ==
    /\ pc[r] = "store_check"
    /\ storeExit' = [storeExit EXCEPT ![r] =
                        JobsStore_getJobResult(job[r], request[r].arg)]
    /\ pc' = [pc EXCEPT ![r] = "usecase_tap"]
    /\ UNCHANGED <<request, job, usecaseExit, handlerExit, response, log, calls>>

\* getJobResult of a test double.
StoreGetJobResultDouble(r) ==
    /\ pc[r] = "store"
    /\ request[r].endpoint = "getJobResult"
    /\ request[r].jobsStore.getJobResult # DefaultImpl
    /\ storeExit' = [storeExit EXCEPT ![r] =
                        CallGetJobResultDouble(request[r].jobsStore, request[r].arg)]
    /\ pc' = [pc EXCEPT ![r] = "usecase_tap"]
    /\ UNCHANGED <<request, job, usecaseExit, handlerExit, response, log, calls>>

\* MediaStore (E.Service) parseMedia suspends for its simulated delay.
StoreParseMediaSleep(r) ==
    /\ pc[r] = "store"
    /\ request[r].endpoint = "parseMedia"
    /\ request[r].mediaStore = "Default"
    /\ pc' = [pc EXCEPT ![r] = "sleeping"]
    /\ UNCHANGED <<request, job, storeExit, usecaseExit, handlerExit, response, log, calls>>

\* Faulty variant: a parseMedia that, woken up, finds its work unfinished
\* and goes back to sleep (polling).
StoreParseMediaWake_Polling(r) ==
    /\ pc[r] = "sleeping"
    /\ pc' = [pc EXCEPT ![r] = "sleeping"]
    /\ UNCHANGED <<request, job, storeExit, usecaseExit, handlerExit, response, log, calls>>

\* ... and returns once the delay has passed.
StoreParseMediaWake(r) ==
    /\ pc[r] = "sleeping"
    /\ storeExit' = [storeExit EXCEPT ![r] =
                        CallParseMedia(request[r].mediaStore, request[r].arg)]
    /\ pc' = [pc EXCEPT ![r] = "usecase_tap"]
    /\ UNCHANGED <<request, job, usecaseExit, handlerExit, response, log, calls>>

\* parseMedia of the other MediaStore implementations.
StoreParseMedia(r) ==
    /\ pc[r] = "store"
    /\ request[r].endpoint = "parseMedia"
    /\ request[r].mediaStore # "Default"
    /\ storeExit' = [storeExit EXCEPT ![r] =
                        CallParseMedia(request[r].mediaStore, request[r].arg)]
    /\ pc' = [pc EXCEPT ![r] = "usecase_tap"]
    /\ UNCHANGED <<request, job, usecaseExit, handlerExit, response, log, calls>>

\* Faulty variant: the use case's pipe with the failure policy applied
\* before E.tapError, which then sees what the policy left.
UsecaseTapError_AfterPolicy(r) ==
    /\ pc[r] = "usecase_tap"
    /\ log' = [log EXCEPT ![r] =
                  @ \o TapErrorLog("usecase",
                                   Usecase(request[r].endpoint, storeExit[r]))]
    /\ pc' = [pc EXCEPT ![r] = "usecase_policy"]
    /\ UNCHANGED <<request, job, storeExit, usecaseExit, handlerExit, response, calls>>

\* E.tapError(E.logError) of the use case.
UsecaseTapError(r) ==
    /\ pc[r] = "usecase_tap"
    /\ log' = [log EXCEPT ![r] = @ \o TapErrorLog("usecase", storeExit[r])]
    /\ pc' = [pc EXCEPT ![r] = "usecase_policy"]
    /\ UNCHANGED <<request, job, storeExit, usecaseExit, handlerExit, response, calls>>

\* Faulty variant: a use case that runs its store call once more when the
\* first attempt did not succeed.
UsecasePolicy_Retrying(r) ==
    /\ pc[r] = "usecase_policy"
    /\ IF ~IsSuccess(storeExit[r]) /\ Len(calls[r]) <= 3
       THEN /\ pc' = [pc EXCEPT ![r] = "usecase"]
            /\ storeExit' = [storeExit EXCEPT ![r] = Pending]
            /\ job' = [job EXCEPT ![r] = Pending]
            /\ UNCHANGED usecaseExit
       ELSE /\ usecaseExit' = [usecaseExit EXCEPT ![r] =
                                  Usecase(request[r].endpoint, storeExit[r])]
            /\ pc' = [pc EXCEPT ![r] = "handler_catch"]
            /\ UNCHANGED <<storeExit, job>>
    /\ UNCHANGED <<request, handlerExit, response, log, calls>>

\* The rest of the use case's pipe (E.orDie where the use case has one);
\* the use case returns to the handler.
UsecasePolicy(r) ==
    /\ pc[r] = "usecase_policy"
    /\ usecaseExit' = [usecaseExit EXCEPT ![r] =
                          Usecase(request[r].endpoint, storeExit[r])]
    /\ pc' = [pc EXCEPT ![r] = "handler_catch"]
    /\ UNCHANGED <<request, job, storeExit, handlerExit, response, log, calls>>

\* The handler's translation (E.catchTags / E.catchAll).
HandlerCatch(r) ==
    /\ pc[r] = "handler_catch"
    /\ handlerExit' = [handlerExit EXCEPT ![r] = Handler(request[r], usecaseExit[r])]
    /\ pc' = [pc EXCEPT ![r] = "handler_tap"]
    /\ UNCHANGED <<request, job, storeExit, usecaseExit, response, log, calls>>

\* E.tapError(E.logError) of the handler.
HandlerTapError(r) ==
    /\ pc[r] = "handler_tap"
    /\ log' = [log EXCEPT ![r] = @ \o TapErrorLog("handler", handlerExit[r])]
    /\ pc' = [pc EXCEPT ![r] = "respond"]
    /\ UNCHANGED <<request, job, storeExit, usecaseExit, handlerExit, response, calls>>

\* The transport renders the handler's exit.
Respond(r) ==
    /\ pc[r] = "respond"
    /\ response' = [response EXCEPT ![r] =
                       HttpResponse(request[r].endpoint, handlerExit[r])]
    /\ pc' = [pc EXCEPT ![r] = "done"]
    /\ UNCHANGED <<request, job, storeExit, usecaseExit, handlerExit, log, calls>>

\* The answered request leaves; its fiber's state is dropped.
Finish(r) ==
    /\ pc[r] = "done"
    /\ pc' = [pc EXCEPT ![r] = "idle"]
    /\ request' = [request EXCEPT ![r] = NoRequest]
    /\ job' = [job EXCEPT ![r] = Pending]
    /\ storeExit' = [storeExit EXCEPT ![r] = Pending]
    /\ usecaseExit' = [usecaseExit EXCEPT ![r] = Pending]
    /\ handlerExit' = [handlerExit EXCEPT ![r] = Pending]
    /\ response' = [response EXCEPT ![r] = NoResponse]
    /\ log' = [log EXCEPT ![r] = <<>>]
    /\ calls' = [calls EXCEPT ![r] = <<>>]

Next ==
    \E r \in Requests :
        \/ Start(r)
        \/ HandlerCallsUsecase(r)
        \/ UsecaseCallsStore(r)
        \/ StoreGetAllJobs(r)
        \/ StoreGetJobById(r)
        \/ StoreGetJobResultLookup(r)
        \/ StoreGetJobResultCheck(r)
        \/ StoreGetJobResultDouble(r)
        \/ StoreParseMediaSleep(r)
        \/ StoreParseMediaWake(r)
        \/ StoreParseMedia(r)
        \/ UsecaseTapError(r)
        \/ UsecasePolicy(r)
        \/ HandlerCatch(r)
        \/ HandlerTapError(r)
        \/ Respond(r)
        \/ Finish(r)

Spec == Init /\ [][Next]_vars

(***************************************************************************)
(* Progress: the runtime keeps running every fiber that can take a step,   *)
(* and the timer of E.sleep fires                                          *)
(***************************************************************************)

\* A step of request r's pipeline, from the handler's call of its use case
\* to the answer.
PipelineStep(r) ==
    \/ HandlerCallsUsecase(r)
    \/ UsecaseCallsStore(r)
    \/ StoreGetAllJobs(r)
    \/ StoreGetJobById(r)
    \/ StoreGetJobResultLookup(r)
    \/ StoreGetJobResultCheck(r)
    \/ StoreGetJobResultDouble(r)
    \/ StoreParseMediaSleep(r)
    \/ StoreParseMediaWake(r)
    \/ StoreParseMedia(r)
    \/ UsecaseTapError(r)
    \/ UsecasePolicy(r)
    \/ HandlerCatch(r)
    \/ HandlerTapError(r)
    \/ Respond(r)

Fairness == \A r \in Requests : WF_vars(PipelineStep(r))

SpecLive == Init /\ [][Next]_vars /\ Fairness

(***************************************************************************)
(* The Boundary Layer on its own: a handler's pipe applied to every exit   *)
(* its `yield* <usecase>(...)` can hand it (a success, a defect, a typed   *)
(* failure of the error channel)                                           *)
(***************************************************************************)

\* Domain error values of the jobs and of the media domain, with the
\* payloads the model distinguishes.
JobErrors ==
    {JobProcessingError(i, "table unavailable") : i \in Ids} \cup
    {JobNotFoundError(i) : i \in Ids} \cup
    {JobResultNotFoundError(i) : i \in Ids}

MediaErrors ==
    {MediaEmptyError("no audio track")} \cup
    {MediaNotFoundError(i) : i \in Ids} \cup
    {MediaParsingError(SourceOf(m), "engine failure") : m \in MediaRequests}

\* The value an endpoint's use case succeeds with under the default stores.
SuccessOf(endpoint, arg) ==
    CASE endpoint = "getJobs" -> JobsStore_getAllJobs
      [] endpoint = "getJob" ->
           Succeed(JobResponse(arg, "Job " \o ToString(arg), "in-progress"))
      [] endpoint = "getJobResult" ->
           Succeed(JobResultResponse(arg, "Result for job " \o ToString(arg)))
      [] endpoint = "parseMedia" -> MediaStore_parseMedia(arg)

\* The exits of the effect a handler's pipe is applied to.
UsecaseExits(endpoint, arg) ==
    {SuccessOf(endpoint, arg), Die("Not implemented")} \cup
    {Fail(e) : e \in IF endpoint = "parseMedia" THEN MediaErrors ELSE JobErrors}

\* The requests under the server's default stores.
BoundaryInputs == {req \in RequestInputs :
                     /\ req.jobsStore = JobsStoreDefault
                     /\ req.mediaStore = "Default"}

\* One handler stands at its pipe, with the exit of its use case in hand.
InitBoundary ==
    /\ \E r \in Requests :
         \E req \in BoundaryInputs :
           \E exit \in UsecaseExits(req.endpoint, req.arg) :
              /\ pc = [q \in Requests |-> IF q = r THEN "handler_catch" ELSE "idle"]
              /\ request = [q \in Requests |-> IF q = r THEN req ELSE NoRequest]
              /\ usecaseExit = [q \in Requests |-> IF q = r THEN exit ELSE Pending]
    /\ job = [r \in Requests |-> Pending]
    /\ storeExit = [r \in Requests |-> Pending]
    /\ handlerExit = [r \in Requests |-> Pending]
    /\ response = [r \in Requests |-> NoResponse]
    /\ log = [r \in Requests |-> <<>>]
    /\ calls = [r \in Requests |-> <<>>]

NextBoundary ==
    \E r \in Requests :
        \/ HandlerCatch(r)
        \/ HandlerTapError(r)
        \/ Respond(r)

SpecBoundary == InitBoundary /\ [][NextBoundary]_vars

(***************************************************************************)
(* The server: requests arrive at any time and their pipelines interleave, *)
(* all under the stores the server is wired with                           *)
(***************************************************************************)

\* The requests of the server of server.ts: JobsStore.Default,
\* MediaStore.Default and the handlers it imports (the E.catchTags version
\* of parseMediaHandler).
ServerInputs == {req \in BoundaryInputs : req.handler = "catchTags"}

\* A request arrives while others may be in flight.
StartServer(r) ==
    /\ pc[r] = "idle"
    /\ \E req \in ServerInputs : request' = [request EXCEPT ![r] = req]
    /\ pc' = [pc EXCEPT ![r] = "handler"]
    /\ UNCHANGED <<job, storeExit, usecaseExit, handlerExit, response, log, calls>>

NextServer ==
    \E r \in Requests :
        \/ StartServer(r)
        \/ HandlerCallsUsecase(r)
        \/ UsecaseCallsStore(r)
        \/ StoreGetAllJobs(r)
        \/ StoreGetJobById(r)
        \/ StoreGetJobResultLookup(r)
        \/ StoreGetJobResultCheck(r)
        \/ StoreParseMediaSleep(r)
        \/ StoreParseMediaWake(r)
        \/ UsecaseTapError(r)
        \/ UsecasePolicy(r)
        \/ HandlerCatch(r)
        \/ HandlerTapError(r)
        \/ Respond(r)
        \/ Finish(r)

SpecServer == Init /\ [][NextServer]_vars

(***************************************************************************)
(* A request run alone: its pipeline from the store to the answer, with no *)
(* other request in flight                                                 *)
(***************************************************************************)

AloneStoreExit(req) ==
    CASE req.endpoint = "getJobs" -> CallGetAllJobs(req.jobsStore)
      [] req.endpoint = "getJob" -> CallGetJobById(req.jobsStore, req.arg)
      [] req.endpoint = "getJobResult" ->
           IF req.jobsStore.getJobResult = DefaultImpl
           THEN JobsStore_getJobResult(CallGetJobById(req.jobsStore, req.arg), req.arg)
           ELSE CallGetJobResultDouble(req.jobsStore, req.arg)
      [] req.endpoint = "parseMedia" -> CallParseMedia(req.mediaStore, req.arg)

AloneUsecaseExit(req) == Usecase(req.endpoint, AloneStoreExit(req))

AloneHandlerExit(req) == Handler(req, AloneUsecaseExit(req))

AloneResponse(req) == HttpResponse(req.endpoint, AloneHandlerExit(req))

AloneLog(req) ==
    TapErrorLog("usecase", AloneStoreExit(req)) \o
    TapErrorLog("handler", AloneHandlerExit(req))

(***************************************************************************)
(* Properties                                                              *)
(***************************************************************************)

\* Request r runs the store's own getJobResult (not a stand-in for it).
RunsGetJobResult(r) ==
    /\ request[r].endpoint = "getJobResult"
    /\ request[r].jobsStore.getJobResult = DefaultImpl

\* What getJobById of request r's provided JobsStore answers for its id.
ById(r) == CallGetJobById(request[r].jobsStore, request[r].arg)

\* Request r asks the default JobsStore for the id it does not hold.
AsksMissingJob(r) ==
    /\ request[r].endpoint \in {"getJob", "getJobResult"}
    /\ request[r].jobsStore = JobsStoreDefault
    /\ request[r].arg = MissingId

\* Request r asks for a job that exists and is in progress.
AsksJobInProgress(r) ==
    /\ request[r].endpoint \in {"getJob", "getJobResult"}
    /\ request[r].endpoint = "getJobResult" => RunsGetJobResult(r)
    /\ IsSuccess(ById(r))
    /\ ById(r).value.status = "in-progress"

\* C1: getJobResult(i) succeeds if and only if getJobById(i) succeeds and
\* the job it returns has status 'completed'.
C1_ResultIffCompleted ==
    \A r \in Requests :
        (RunsGetJobResult(r) /\ storeExit[r] # Pending)
        => (IsSuccess(storeExit[r])
            <=> (IsSuccess(ById(r)) /\ ById(r).value.status = "completed"))

C1_Witness ==
    \E r \in Requests :
        /\ RunsGetJobResult(r)
        /\ IsSuccess(storeExit[r])
        /\ job[r].value.status = "completed"

\* C2: for an id for which no job exists, getJobById and getJobResult,
\* in the store and in the use case, fail with JobNotFoundError (and so
\* never with JobResultNotFoundError).
C2_MissingJobIsJobNotFound ==
    \A r \in Requests :
        AsksMissingJob(r)
        => /\ storeExit[r] # Pending
              => storeExit[r] = Fail(JobNotFoundError(request[r].arg))
           /\ usecaseExit[r] # Pending
              => usecaseExit[r] = Fail(JobNotFoundError(request[r].arg))

C2_Witness ==
    \E r \in Requests :
        /\ AsksMissingJob(r)
        /\ request[r].endpoint = "getJobResult"
        /\ FailsWith(usecaseExit[r], "JobNotFoundError")

\* C3: for an existing job whose status is 'pending' or 'in-progress',
\* getJobResult fails with JobResultNotFoundError, not JobNotFoundError.
C3_IncompleteJobIsResultNotFound ==
    \A r \in Requests :
        (/\ RunsGetJobResult(r)
         /\ storeExit[r] # Pending
         /\ IsSuccess(ById(r))
         /\ ById(r).value.status \in {"pending", "in-progress"})
        => storeExit[r] = Fail(JobResultNotFoundError(request[r].arg))

C3_Witness ==
    \E r \in Requests :
        /\ RunsGetJobResult(r)
        /\ IsSuccess(job[r])
        /\ job[r].value.status = "pending"
        /\ FailsWith(storeExit[r], "JobResultNotFoundError")

\* C4: for an existing job in progress, GET /media/job/{id} answers 200
\* with that job (the requested id, status 'in-progress') and
\* GET /media/job/{id}/result answers the wire error JobResultNotFound
\* with status 404.
C4_JobInProgressScenario ==
    \A r \in Requests :
        (pc[r] = "done" /\ AsksJobInProgress(r))
        => IF request[r].endpoint = "getJob"
           THEN /\ response[r].status = 200
                /\ response[r].kind = "Success"
                /\ response[r].body.id = request[r].arg
                /\ response[r].body.status = "in-progress"
           ELSE response[r] = [status |-> 404, kind |-> "Error",
                               body |-> JobResultNotFound]

C4_Witness ==
    \E r \in Requests :
        /\ pc[r] = "done"
        /\ request[r].endpoint = "getJobResult"
        /\ request[r].jobsStore = JobsStoreDefault
        /\ request[r].arg = 1
        /\ response[r].status = 404
        /\ response[r].body = JobResultNotFound

\* C5: for a job id that does not exist, GET /media/job/{id} and
\* GET /media/job/{id}/result both answer the wire error JobNotFound with
\* status 404 (the result endpoint never answers JobResultNotFound).
C5_MissingJobScenario ==
    \A r \in Requests :
        (pc[r] = "done" /\ AsksMissingJob(r))
        => response[r] = [status |-> 404, kind |-> "Error", body |-> JobNotFound]

C5_Witness ==
    \E r \in Requests :
        /\ pc[r] = "done"
        /\ AsksMissingJob(r)
        /\ request[r].endpoint = "getJobResult"
        /\ response[r].status = 404
        /\ response[r].body = JobNotFound

\* C6: whenever getAllJobs fails with a domain error, getJobsUsecase and
\* getJobsHandler end in a defect, never in a failure value.
C6_ListingFailureIsDefect ==
    \A r \in Requests :
        (request[r].endpoint = "getJobs" /\ IsFailure(storeExit[r]))
        => /\ usecaseExit[r] # Pending => usecaseExit[r] = Die(storeExit[r].error)
           /\ handlerExit[r] # Pending => handlerExit[r] = Die(storeExit[r].error)

C6_Witness ==
    \E r \in Requests :
        /\ request[r].endpoint = "getJobs"
        /\ FailsWith(storeExit[r], "JobProcessingError")
        /\ IsDie(handlerExit[r])

\* C7: getJobByIdUsecase and getJobResultUsecase return a domain error
\* raised by the store unchanged (same tag, same payload), never as a
\* defect or as another error.
C7_PropagateUnchanged ==
    \A r \in Requests :
        (/\ request[r].endpoint \in {"getJob", "getJobResult"}
         /\ IsFailure(storeExit[r])
         /\ usecaseExit[r] # Pending)
        => usecaseExit[r] = storeExit[r]

C7_Witness ==
    \E r \in Requests :
        /\ request[r].endpoint = "getJobResult"
        /\ FailsWith(storeExit[r], "JobResultNotFoundError")
        /\ FailsWith(usecaseExit[r], "JobResultNotFoundError")
        /\ usecaseExit[r].error.jobId = request[r].arg

\* The wire errors the handlers translate a domain error tag to.
HandlerCases ==
    {getJobsHandlerCases, getJobByIdHandlerCases, getJobResultHandlerCases,
     parseMediaHandlerCases}

TranslationsOf(tag) == {cases[tag] : cases \in {c \in HandlerCases : tag \in DOMAIN c}}

\* The statuses the endpoints declare a wire error with.
StatusesOf(wire) ==
    {d.status : d \in {x \in UNION {ApiErrors(e) : e \in Endpoints} : x.error = wire.tag}}

\* C8: every domain error variant the code defines has exactly one wire
\* error the Boundary Layer translates it to, declared with exactly one
\* HTTP status.
C8_EveryDomainErrorHasOneWireError ==
    \A r \in Requests :
        pc[r] # "idle"
        => \A tag \in DomainErrorTags :
              /\ Cardinality(TranslationsOf(tag)) = 1
              /\ \A wire \in TranslationsOf(tag) : Cardinality(StatusesOf(wire)) = 1

\* C9: every exit of a handler is a success, a wire error or a defect,
\* never a failure whose value is a domain error.
C9_NoDomainErrorCrossesBoundary ==
    \A r \in Requests :
        handlerExit[r] # Pending
        => \/ IsSuccess(handlerExit[r])
           \/ IsDie(handlerExit[r])
           \/ IsFailure(handlerExit[r]) /\ handlerExit[r].error \in WireErrors

C9_Witness ==
    \E r \in Requests :
        /\ FailsWith(usecaseExit[r], "JobResultNotFoundError")
        /\ handlerExit[r] = Fail(JobResultNotFound)

\* C10: when MediaStore.parseMedia fails with MediaParsingError, the
\* POST /media/parse pipeline answers the wire error MediaEmpty with
\* status 422.
C10_ParsingErrorIsMediaEmpty ==
    \A r \in Requests :
        (/\ pc[r] = "done"
         /\ request[r].endpoint = "parseMedia"
         /\ FailsWith(storeExit[r], "MediaParsingError"))
        => response[r] = [status |-> 422, kind |-> "Error", body |-> MediaEmpty]

\* C11: a defect raised in the store or in the use case is never turned
\* into a wire error: the use case and the handler end with that defect
\* and the request is answered as an unexpected failure, with no wire
\* error.
C11_DefectIsNeverTranslated ==
    \A r \in Requests :
        /\ (IsDie(storeExit[r]) /\ usecaseExit[r] # Pending)
           => usecaseExit[r] = storeExit[r]
        /\ (IsDie(usecaseExit[r]) /\ handlerExit[r] # Pending)
           => handlerExit[r] = usecaseExit[r]
        /\ (IsDie(usecaseExit[r]) /\ pc[r] = "done")
           => /\ response[r].kind = "Unexpected"
              /\ response[r].body \notin WireErrors

C11_Witness ==
    \E r \in Requests :
        /\ pc[r] = "done"
        /\ request[r].endpoint = "parseMedia"
        /\ request[r].handler = "catchAll"
        /\ FailsWith(storeExit[r], "MediaParsingError")
        /\ IsDie(usecaseExit[r])
        /\ handlerExit[r] = usecaseExit[r]
        /\ response[r].kind = "Unexpected"

\* The error tags the handler of a request names in its translation
\* (E.catchAll names none).
NamedTags(req) ==
    CASE req.endpoint = "getJobs" -> DOMAIN getJobsHandlerCases
      [] req.endpoint = "getJob" -> DOMAIN getJobByIdHandlerCases
      [] req.endpoint = "getJobResult" -> DOMAIN getJobResultHandlerCases
      [] req.endpoint = "parseMedia" ->
           IF req.handler = "catchTags" THEN DOMAIN parseMediaHandlerCases ELSE {}

StartAscending(json) ==
    \A i \in 1..Len(json) : \A j \in 1..Len(json) :
        i < j => json[i].start <= json[j].start

\* C13: a parse request with a url and a language, served under any
\* MediaStore implementation the server is wired with, is answered 200
\* with a non-empty sequence of segments ordered by start ascending.
C13_UrlParseAnswersSegments ==
    \A r \in Requests :
        (/\ pc[r] = "done"
         /\ request[r].endpoint = "parseMedia"
         /\ "url" \in DOMAIN request[r].arg
         /\ request[r].mediaStore \in ServerMediaStores)
        => /\ response[r].status = 200
           /\ response[r].kind = "Success"
           /\ Len(response[r].body.json) > 0
           /\ StartAscending(response[r].body.json)

\* The statuses the answer to request r shows for job id i: an entry of a
\* listing, the job of a get-by-id, or (a result being there) 'completed'.
ObservedStatuses(r, i) ==
    IF response[r].kind # "Success"
    THEN {}
    ELSE CASE request[r].endpoint = "getJobs" ->
                {response[r].body.jobs[k].status :
                   k \in {n \in 1..Len(response[r].body.jobs) :
                            response[r].body.jobs[n].id = i}}
           [] request[r].endpoint = "getJob" ->
                IF response[r].body.id = i THEN {response[r].body.status} ELSE {}
           [] request[r].endpoint = "getJobResult" ->
                IF response[r].body.id = i THEN {"completed"} ELSE {}
           [] OTHER -> {}

\* pending < in-progress < completed
StatusRank(status) ==
    CASE status = "pending" -> 0
      [] status = "in-progress" -> 1
      [] status = "completed" -> 2

\* C14: an answer never shows a job in an earlier status than an answer
\* given before it showed for the same job id (completed is never followed
\* by in-progress or pending, in-progress never by pending).
C14_StatusNeverRegresses ==
    [][\A r \in Requests : \A q \in Requests :
          (pc[r] = "respond" /\ pc'[r] = "done" /\ pc[q] = "done")
          => \A i \in Ids :
                \A before \in ObservedStatuses(q, i) :
                   \A after \in ObservedStatuses(r, i)' :
                      StatusRank(after) >= StatusRank(before)]_vars

\* The entries getAllJobs of a provided JobsStore reports for job id i.
ListedJobs(store, i) ==
    IF IsSuccess(CallGetAllJobs(store))
    THEN LET jobs == CallGetAllJobs(store).value.jobs
         IN {jobs[k] : k \in {n \in 1..Len(jobs) : jobs[n].id = i}}
    ELSE {}

\* C15: for every job getAllJobs reports as 'completed', getJobResult on
\* its id succeeds with a result; for every job it reports with another
\* status getJobResult fails.
C15_ResultIffListedCompleted ==
    \A r \in Requests :
        (RunsGetJobResult(r) /\ storeExit[r] # Pending)
        => \A listed \in ListedJobs(request[r].jobsStore, request[r].arg) :
              IF listed.status = "completed"
              THEN /\ IsSuccess(storeExit[r])
                   /\ storeExit[r].value.id = request[r].arg
              ELSE ~IsSuccess(storeExit[r])

\* C16: two requests whose use cases fail with the same domain error tag
\* are answered with the same wire error, whatever the payloads of their
\* domain errors, and that wire error has no field beyond its tag.
C16_WireErrorDependsOnTagOnly ==
    \A r \in Requests : \A q \in Requests :
        (/\ pc[r] = "done" /\ pc[q] = "done"
         /\ IsFailure(usecaseExit[r]) /\ IsFailure(usecaseExit[q])
         /\ usecaseExit[r].error.tag = usecaseExit[q].error.tag)
        => /\ IsFailure(handlerExit[r])
           /\ handlerExit[r] = handlerExit[q]
           /\ DOMAIN handlerExit[r].error = {"tag"}
           /\ response[r].kind = "Error"
           /\ response[r].body = response[q].body
           /\ response[r].status = response[q].status

C16_Witness ==
    \E r \in Requests : \E q \in Requests :
        /\ pc[r] = "done" /\ pc[q] = "done"
        /\ FailsWith(usecaseExit[r], "JobResultNotFoundError")
        /\ FailsWith(usecaseExit[q], "JobResultNotFoundError")
        /\ usecaseExit[r].error.jobId # usecaseExit[q].error.jobId
        /\ response[r].body = JobResultNotFound
        /\ response[q].body = JobResultNotFound

\* Everything the model holds of request r.
FiberState(r) ==
    <<pc[r], request[r], job[r], storeExit[r], usecaseExit[r], handlerExit[r],
      response[r], log[r], calls[r]>>

\* C17: requests in flight together are independent.  Every step of a
\* pipeline changes the state of its own request only, and in every
\* interleaving a request's exits, log and answer are those it has when
\* run alone.
C17_RequestsAreIndependent ==
    [][/\ \E r \in Requests :
             \A q \in Requests \ {r} : FiberState(q)' = FiberState(q)
       /\ \A r \in Requests :
             /\ storeExit'[r] # Pending
                => storeExit'[r] = AloneStoreExit(request'[r])
             /\ pc'[r] = "done"
                => /\ usecaseExit'[r] = AloneUsecaseExit(request'[r])
                   /\ handlerExit'[r] = AloneHandlerExit(request'[r])
                   /\ response'[r] = AloneResponse(request'[r])
                   /\ log'[r] = AloneLog(request'[r])]_vars

\* Two requests for different jobs are in flight together, each past its
\* store call with the exit of its own id.
C17_Witness ==
    \E r \in Requests : \E q \in Requests :
        /\ r # q
        /\ pc[r] = "respond" /\ pc[q] = "handler_catch"
        /\ request[r].endpoint = "getJob" /\ request[q].endpoint = "getJob"
        /\ request[r].arg = 1 /\ request[q].arg = MissingId
        /\ IsSuccess(handlerExit[r])
        /\ handlerExit[r].value.id = 1
        /\ FailsWith(usecaseExit[q], "JobNotFoundError")

\* What request r has read from the store so far: the listing, and the
\* exit of a getJobById lookup (made for the job or for its result).
ListingRead(r) ==
    IF request[r].endpoint = "getJobs" /\ storeExit[r] # Pending
    THEN {storeExit[r]}
    ELSE {}

LookupRead(r) ==
    CASE request[r].endpoint = "getJob" /\ storeExit[r] # Pending -> {storeExit[r]}
      [] request[r].endpoint = "getJobResult" /\ job[r] # Pending -> {job[r]}
      [] OTHER -> {}

\* C18: the core only reads job state.  Whatever requests the server has
\* run, successful or failed, the job records are as they were: every
\* listing reads the same jobs, and every lookup of one id reads the same
\* record (same id, name, status) or the same absence.
C18_JobRecordsAreNeverChanged ==
    \A r \in Requests : \A q \in Requests :
        /\ \A a \in ListingRead(r) : \A b \in ListingRead(q) : a = b
        /\ \A a \in LookupRead(r) : \A b \in LookupRead(q) :
              request[r].arg = request[q].arg => a = b

\* A lookup of job 1 made for a result request that failed, and a lookup
\* of job 1 by a get-by-id request: both read the same record.
C18_Witness ==
    \E r \in Requests : \E q \in Requests :
        /\ pc[r] = "done" /\ pc[q] = "done"
        /\ request[r].endpoint = "getJobResult" /\ request[r].arg = 1
        /\ request[q].endpoint = "getJob" /\ request[q].arg = 1
        /\ response[r].kind = "Error"
        /\ IsSuccess(job[r])
        /\ job[r] = storeExit[q]

\* C19: getJobResult resolves the job through getJobById before it checks
\* the status.  The status check finds the lookup done; getJobResult ends
\* with JobResultNotFoundError only after a lookup that succeeded; and a
\* lookup that did not succeed is the exit of getJobResult as it is.
C19_LookupBeforeStatusCheck ==
    \A r \in Requests :
        RunsGetJobResult(r)
        => /\ pc[r] = "store_check"
              => /\ job[r] # Pending
                 /\ storeExit[r] = Pending
                 /\ calls[r][Len(calls[r])] = "JobsStore.getJobById"
           /\ storeExit[r] # Pending => job[r] # Pending
           /\ FailsWith(storeExit[r], "JobResultNotFoundError") => IsSuccess(job[r])
           /\ (storeExit[r] # Pending /\ ~IsSuccess(job[r])) => storeExit[r] = job[r]

C19_Witness ==
    \E r \in Requests :
        /\ RunsGetJobResult(r)
        /\ job[r] = Fail(JobNotFoundError(MissingId))
        /\ storeExit[r] = job[r]
        /\ calls[r] = <<"getJobResultUsecase", "JobsStore.getJobResult",
                        "JobsStore.getJobById">>

\* The use case of request r has logged the error its store call failed
\* with, as the first event of the request.
UsecaseLogged(r) ==
    /\ Len(log[r]) >= 1
    /\ log[r][1] = [by |-> "usecase", error |-> storeExit[r].error]

\* C20: in every use case, a (typed) error of the store is logged before
\* the failure policy is applied.  When the policy is about to run the
\* error is in the log and the use case has not ended yet; no use case
\* ends on a store error, as a defect or as the error itself, without
\* that log event.
C20_LoggedBeforePolicy ==
    \A r \in Requests :
        IsFailure(storeExit[r])
        => /\ pc[r] = "usecase_policy"
              => UsecaseLogged(r) /\ usecaseExit[r] = Pending
           /\ usecaseExit[r] # Pending
              => /\ UsecaseLogged(r)
                 /\ usecaseExit[r] \in {storeExit[r], Die(storeExit[r].error)}

C20_Witness ==
    \E r \in Requests :
        /\ pc[r] = "handler_catch"
        /\ request[r].endpoint = "getJobs"
        /\ FailsWith(storeExit[r], "JobProcessingError")
        /\ usecaseExit[r] = Die(storeExit[r].error)
        /\ log[r] = <<[by |-> "usecase", error |-> storeExit[r].error]>>

UsecaseNames == {UsecaseName(e) : e \in Endpoints}

\* The positions of a pipeline at which its use case has returned to the
\* handler.
AfterUsecase == {"handler_catch", "handler_tap", "respond", "done"}

\* The store operations the use case of a request makes: its one store
\* operation, and inside the store's own getJobResult the getJobById
\* lookup.
StoreCallsOf(req) ==
    IF req.endpoint = "getJobResult" /\ req.jobsStore.getJobResult = DefaultImpl
    THEN <<StoreOperation(req.endpoint), "JobsStore.getJobById">>
    ELSE <<StoreOperation(req.endpoint)>>

\* C21: a handler invokes exactly one use case, once, and makes no store
\* call of its own: the first call of a request is the use case of its
\* endpoint, no other call is a use case, nothing is called before it,
\* and once the use case has returned the calls of the request are that
\* use case followed by the store calls the use case made.
C21_OneUsecasePerRequest ==
    \A r \in Requests :
        /\ pc[r] = "handler" => calls[r] = <<>>
        /\ pc[r] \notin {"idle", "handler"}
           => /\ Len(calls[r]) >= 1
              /\ calls[r][1] = UsecaseName(request[r].endpoint)
              /\ \A k \in 2..Len(calls[r]) : calls[r][k] \notin UsecaseNames
        /\ pc[r] \in AfterUsecase
           => calls[r] = <<UsecaseName(request[r].endpoint)>> \o StoreCallsOf(request[r])

C21_Witness ==
    \E r \in Requests :
        /\ pc[r] = "done"
        /\ request[r].endpoint = "getJob"
        /\ response[r].status = 200
        /\ calls[r] = <<"getJobByIdUsecase", "JobsStore.getJobById">>

\* How often an operation occurs among the calls of a request.
Occurrences(sequence, operation) ==
    Cardinality({k \in 1..Len(sequence) : sequence[k] = operation})

TimesCalled(r, operation) == Occurrences(calls[r], operation)

\* C22: no layer retries.  Within one request every operation is invoked
\* at most once; once a store operation (or the getJobById lookup inside
\* getJobResult) has ended, with a success or not, its exit stands and
\* nothing is invoked again; the exits of the use case and of the handler,
\* once there, stand too.
C22_NoRetry ==
    [][\A r \in Requests :
          pc'[r] # "idle"
          => /\ \A k \in 1..Len(calls'[r]) : Occurrences(calls'[r], calls'[r][k]) = 1
             /\ job[r] # Pending => job'[r] = job[r]
             /\ storeExit[r] # Pending
                => storeExit'[r] = storeExit[r] /\ calls'[r] = calls[r]
             /\ usecaseExit[r] # Pending => usecaseExit'[r] = usecaseExit[r]
             /\ handlerExit[r] # Pending => handlerExit'[r] = handlerExit[r]]_vars

C22_Witness ==
    \E r \in Requests :
        /\ pc[r] = "done"
        /\ RunsGetJobResult(r)
        /\ FailsWith(job[r], "JobNotFoundError")
        /\ response[r].status = 404
        /\ TimesCalled(r, "JobsStore.getJobById") = 1
        /\ TimesCalled(r, "JobsStore.getJobResult") = 1
        /\ TimesCalled(r, "getJobResultUsecase") = 1

\* The outcomes of a request: a success value, a wire error, a defect.
IsOutcome(exit) ==
    \/ IsSuccess(exit)
    \/ IsFailure(exit) /\ exit.error \in WireErrors
    \/ IsDie(exit)

SameJobs(a, b) ==
    /\ Len(a) = Len(b)
    /\ \A k \in 1..Len(a) :
          /\ a[k].id = b[k].id
          /\ a[k].name = b[k].name
          /\ a[k].status = b[k].status

\* C24: the jobs list getJobsUsecase and getJobsHandler return, and the
\* one the request is answered with, is exactly the sequence the store's
\* getAllJobs returned, for every store implementation.
C24_ListingPassesUnchanged ==
    \A r \in Requests :
        (request[r].endpoint = "getJobs" /\ IsSuccess(storeExit[r]))
        => /\ usecaseExit[r] # Pending
              => /\ IsSuccess(usecaseExit[r])
                 /\ SameJobs(usecaseExit[r].value.jobs, storeExit[r].value.jobs)
           /\ handlerExit[r] # Pending
              => /\ IsSuccess(handlerExit[r])
                 /\ SameJobs(handlerExit[r].value.jobs, storeExit[r].value.jobs)
           /\ pc[r] = "done"
              => /\ response[r].status = 200
                 /\ response[r].body = storeExit[r].value

C24_Witness ==
    \E r \in Requests :
        /\ pc[r] = "done"
        /\ request[r].endpoint = "getJobs"
        /\ request[r].jobsStore # JobsStoreDefault
        /\ IsSuccess(storeExit[r])
        /\ Len(storeExit[r].value.jobs) = 2
        /\ response[r].body.jobs[1].name = "Test Job 1"
        /\ response[r].body.jobs[2].status = "completed"

\* C25: every successful getJobById(id) and getJobByIdUsecase(id) returns
\* a job whose id is the requested id, and every successful
\* getJobResult(jobId) returns a result whose id is the requested jobId.
C25_IdsAreTheRequestedIds ==
    \A r \in Requests :
        /\ request[r].endpoint = "getJob"
           => /\ IsSuccess(storeExit[r]) => storeExit[r].value.id = request[r].arg
              /\ IsSuccess(usecaseExit[r]) => usecaseExit[r].value.id = request[r].arg
        /\ request[r].endpoint = "getJobResult"
           => /\ IsSuccess(job[r]) => job[r].value.id = request[r].arg
              /\ IsSuccess(storeExit[r]) => storeExit[r].value.id = request[r].arg
              /\ IsSuccess(usecaseExit[r]) => usecaseExit[r].value.id = request[r].arg

C25_Witness ==
    \E r \in Requests :
        /\ request[r].endpoint = "getJob"
        /\ request[r].jobsStore = JobsStoreDefault
        /\ request[r].arg = 2
        /\ IsSuccess(usecaseExit[r])
        /\ usecaseExit[r].value.id = 2

\* The name the default store gives the jobs of the ids the model asks for.
DefaultNameOf(id) ==
    CASE id = 1 -> "Job 1"
      [] id = 2 -> "Job 2"

\* C26: in the default JobsStore, getJobById(id) fails with
\* JobNotFoundError exactly when id = 999; for every other id it succeeds
\* with a job carrying that id, the name 'Job <id>' and status
\* 'in-progress'.
C26_DefaultLookup ==
    \A r \in Requests :
        (/\ request[r].endpoint = "getJob"
         /\ request[r].jobsStore = JobsStoreDefault
         /\ storeExit[r] # Pending)
        => IF request[r].arg = 999
           THEN storeExit[r] = Fail(JobNotFoundError(999))
           ELSE /\ IsSuccess(storeExit[r])
                /\ storeExit[r].value.id = request[r].arg
                /\ storeExit[r].value.name = DefaultNameOf(request[r].arg)
                /\ storeExit[r].value.status = "in-progress"

C26_Witness ==
    \E r \in Requests :
        /\ request[r].endpoint = "getJob"
        /\ request[r].jobsStore = JobsStoreDefault
        /\ request[r].arg = 2
        /\ storeExit[r] = Succeed([id |-> 2, name |-> "Job 2", status |-> "in-progress"])

\* How the store method request r's use case calls is implemented.
MethodOf(r) ==
    CASE request[r].endpoint = "getJobs" -> request[r].jobsStore.getAllJobs
      [] request[r].endpoint = "getJob" -> request[r].jobsStore.getJobById
      [] request[r].endpoint = "getJobResult" -> request[r].jobsStore.getJobResult
      [] request[r].endpoint = "parseMedia" -> [impl |-> request[r].mediaStore]

\* The message makeTestLayer's double dies with, per endpoint.
UnimplementedMessage(endpoint) ==
    CASE endpoint = "getJobs" -> "JobsStore: Unimplemented method \"getAllJobs\""
      [] endpoint = "getJob" -> "JobsStore: Unimplemented method \"getJobById\""
      [] endpoint = "getJobResult" -> "JobsStore: Unimplemented method \"getJobResult\""
      [] endpoint = "parseMedia" -> "MediaStore: Unimplemented method \"parseMedia\""

\* C27: in a test double, a method that was not overridden ends in a
\* defect ('Not implemented' from makeTestService, 'Unimplemented method'
\* from makeTestLayer), and an overridden method ends as the supplied
\* implementation does: with its value, or with its error.
C27_DoublesFailByDefault ==
    \A r \in Requests :
        storeExit[r] # Pending
        => LET m == MethodOf(r) IN
           /\ m.impl = "NotImplemented" => storeExit[r] = Die("Not implemented")
           /\ m.impl = "Unimplemented"
              => storeExit[r] = Die(UnimplementedMessage(request[r].endpoint))
           /\ (m.impl = "Succeed" /\ request[r].endpoint = "getJobs")
              => storeExit[r] = Succeed([jobs |-> m.jobs])
           /\ (m.impl = "Fail" /\ request[r].endpoint = "getJobs")
              => storeExit[r] = Fail(m.error)
           /\ (m.impl = "Succeed" /\ request[r].endpoint = "getJob")
              => /\ IsSuccess(storeExit[r])
                 /\ storeExit[r].value.status = m.status
           /\ (m.impl = "Succeed" /\ request[r].endpoint \in {"getJobResult", "parseMedia"})
              => IsSuccess(storeExit[r])
           /\ (m.impl = "Fail" /\ request[r].endpoint = "getJobResult")
              => FailsWith(storeExit[r], "JobResultNotFoundError")
           /\ (m.impl = "Fail" /\ request[r].endpoint = "parseMedia")
              => FailsWith(storeExit[r], "MediaParsingError")

C27_Witness ==
    \E r \in Requests :
        /\ pc[r] = "done"
        /\ request[r].endpoint = "getJobs"
        /\ request[r].jobsStore.getAllJobs.impl = "Unimplemented"
        /\ IsDie(storeExit[r])
        /\ response[r].status = 500

\* C28: the listing and the by-id lookup of the default JobsStore agree:
\* getJobById(i) succeeds exactly for the ids getAllJobs lists, and for a
\* listed job it returns the name and the status the listing shows.
C28_ListingAndLookupAgree ==
    \A r \in Requests :
        (/\ request[r].endpoint = "getJob"
         /\ request[r].jobsStore = JobsStoreDefault
         /\ storeExit[r] # Pending)
        => LET listed == ListedJobs(request[r].jobsStore, request[r].arg) IN
           /\ IsSuccess(storeExit[r]) <=> listed # {}
           /\ \A entry \in listed :
                 /\ storeExit[r].value.name = entry.name
                 /\ storeExit[r].value.status = entry.status

\* The wire errors the handler serving a request can translate to: the
\* targets of its E.catchTags cases, or the one target of E.catchAll.
WireErrorsOf(req) ==
    CASE req.endpoint = "getJobs" ->
           {getJobsHandlerCases[t] : t \in DOMAIN getJobsHandlerCases}
      [] req.endpoint = "getJob" ->
           {getJobByIdHandlerCases[t] : t \in DOMAIN getJobByIdHandlerCases}
      [] req.endpoint = "getJobResult" ->
           {getJobResultHandlerCases[t] : t \in DOMAIN getJobResultHandlerCases}
      [] req.endpoint = "parseMedia" ->
           IF req.handler = "catchTags"
           THEN {parseMediaHandlerCases[t] : t \in DOMAIN parseMediaHandlerCases}
           ELSE {MediaEmpty}

\* The error tags an endpoint declares.
DeclaredBy(endpoint) == {d.error : d \in ApiErrors(endpoint)}

\* C29: every wire error a handler can end with is declared by the
\* endpoint the handler serves.  For each request in the pipeline, the
\* targets of its handler's translation are declared by its endpoint
\* (JobNotFound by getJob, JobNotFound and JobResultNotFound by
\* getJobResult, MediaEmpty by parseMedia), and a handler exit that is a
\* wire error is one of those targets, so the transport answers it with
\* the declared status and never as an unclassified failure.
C29_WireErrorsAreDeclared ==
    \A r \in Requests :
        request[r] # NoRequest
        => /\ \A wire \in WireErrorsOf(request[r]) :
                 wire.tag \in DeclaredBy(request[r].endpoint)
           /\ request[r].endpoint = "getJob"
                 => "JobNotFound" \in DeclaredBy("getJob")
           /\ request[r].endpoint = "getJobResult"
                 => {"JobNotFound", "JobResultNotFound"} \subseteq DeclaredBy("getJobResult")
           /\ request[r].endpoint = "parseMedia"
                 => "MediaEmpty" \in DeclaredBy("parseMedia")
           /\ (IsFailure(handlerExit[r]) /\ handlerExit[r].error \in WireErrors)
                 => /\ handlerExit[r].error \in WireErrorsOf(request[r])
                    /\ handlerExit[r].error.tag \in DeclaredBy(request[r].endpoint)
                    /\ pc[r] = "done" => response[r].kind = "Error"

C29_Witness ==
    \E r \in Requests :
        /\ pc[r] = "done"
        /\ request[r].endpoint = "getJobResult"
        /\ FailsWith(usecaseExit[r], "JobNotFoundError")
        /\ handlerExit[r] = Fail(JobNotFound)
        /\ response[r] = [status |-> 404, kind |-> "Error", body |-> JobNotFound]

\* C30: a request that fails with a propagated domain error has exactly
\* two error-log events, in this order: the use case's, of the domain
\* error, then the handler's, of the translated wire error; a request that
\* ends in a defect has exactly one error-log event, the use case's, and
\* none of the handler.
C30_ErrorLogEvents ==
    \A r \in Requests :
        pc[r] = "done"
        => /\ IsFailure(handlerExit[r])
                 => /\ IsFailure(usecaseExit[r])
                    /\ usecaseExit[r].error.tag \in DomainErrorTags
                    /\ handlerExit[r].error \in WireErrors
                    /\ log[r] = <<[by |-> "usecase", error |-> usecaseExit[r].error],
                                  [by |-> "handler", error |-> handlerExit[r].error]>>
           /\ IsDie(handlerExit[r])
                 => /\ Len(log[r]) = 1
                    /\ log[r][1].by = "usecase"
====
